---- MODULE Spec2Model ----
(***************************************************************************)
(* Lala Android adapter: the voice-command pipeline of LalaAssistant, its  *)
(* background listening thread and the module-level API functions of       *)
(* android_adapter/integration.py.                                         *)
(*                                                                         *)
(* Python strings are sequences of characters, dicts are records (a key is *)
(* present iff it is in the record's DOMAIN), None is a sentinel of the    *)
(* value's own kind.  Thread 0 is the caller of the API; threads 1.. are   *)
(* the background listening threads, in the order they were created.       *)
(***************************************************************************)
EXTENDS Integers, Sequences, FiniteSets, TLC

\* ------------------------------------------------------------------ bounds
MaxLen == 4          \* longest recognized text of the string specification
MaxWakeLen == 2      \* longest wake word of the string specification
MaxThreads == 2      \* background threads created over a run
MaxAssistants == 2   \* LalaAssistant objects constructed over a run
MaxCalls == 2        \* calls the caller makes over a run
MaxChunks == 2       \* 4000-frame chunks in the longest audio file

\* ------------------------------------------------------------ str methods
\* Characters.  "Idot" is U+0130 (capital I with dot above), the character
\* whose lower() is two characters long: "i" followed by U+0307 ("dot").
Alphabet == {"l", "a", "L", " ", "Idot"}

\* str.lower() of one character.
LowerChar(c) ==
    CASE c = "L" -> <<"l">>
      [] c = "A" -> <<"a">>
      [] c = "X" -> <<"x">>
      [] c = "Idot" -> <<"i", "dot">>
      [] OTHER -> <<c>>

RECURSIVE lower(_)
\* str.lower(): character by character; the result may be longer than s.
lower(s) == IF s = <<>> THEN <<>> ELSE LowerChar(Head(s)) \o lower(Tail(s))

\* s[i:] for a 0-based i >= 0.
SliceFrom(s, i) == SubSeq(s, i + 1, Len(s))

\* s.startswith(sub, i) for a 0-based i.
MatchAt(s, sub, i) ==
    /\ i + Len(sub) <= Len(s)
    /\ SubSeq(s, i + 1, i + Len(sub)) = sub

\* str.find(sub): the lowest 0-based index at which sub occurs, or -1.
find(s, sub) ==
    LET hits == {i \in 0..Len(s) : MatchAt(s, sub, i)}
    IN  IF hits = {} THEN -1 ELSE CHOOSE i \in hits : \A j \in hits : i <= j

\* sub in s
contains(s, sub) == find(s, sub) >= 0

IsSpace(c) == c = " "

RECURSIVE lstrip(_)
lstrip(s) == IF s # <<>> /\ IsSpace(Head(s)) THEN lstrip(Tail(s)) ELSE s

RECURSIVE rstrip(_)
rstrip(s) ==
    IF s # <<>> /\ IsSpace(s[Len(s)]) THEN rstrip(SubSeq(s, 1, Len(s) - 1)) ELSE s

\* str.strip()
strip(s) == rstrip(lstrip(s))

\* process_voice_command, lines 222-230: the command text handed to
\* process_text_command for a non-empty recognized text.  start_index is
\* computed on the lowered text and applied to the original text.
\* (ExtractCommandOrNothing is the variant that drops a text without the wake
\* word instead of passing it on.)
ExtractCommandOrNothing(recognized_text, wake_word) ==
    LET wake_word_lower == lower(wake_word)
        start_index == find(lower(recognized_text), wake_word_lower)
                         + Len(wake_word_lower)
    IN  IF contains(lower(recognized_text), wake_word_lower)
        THEN strip(SliceFrom(recognized_text, start_index))
        ELSE <<>>

ExtractCommand(recognized_text, wake_word) ==
    LET wake_word_lower == lower(wake_word)
        start_index == find(lower(recognized_text), wake_word_lower)
                         + Len(wake_word_lower)
    IN  IF contains(lower(recognized_text), wake_word_lower)
        THEN strip(SliceFrom(recognized_text, start_index))
        ELSE recognized_text

\* --------------------------------------------------------------- values
NoText == <<"None">>                 \* None where a str is expected
NoDict == [none |-> TRUE]            \* None where a dict is expected
NoThread == 0                        \* background_thread = None

Caller == 0                          \* the thread that calls the API
Background == 1..MaxThreads          \* background listening threads
Threads == {Caller} \cup Background
Assistants == 1..MaxAssistants       \* LalaAssistant objects, in creation order

\* wake_word default of LalaAssistant.__init__ and initialize_assistant
DefaultWakeWord == <<"L", "a", "l", "a">>

\* Wake words a caller passes (set_wake_word, update_configuration,
\* initialize_assistant): empty, one character, two characters, the default.
WakeWordInputs == {<<>>, <<"a">>, <<"l", "a">>, DefaultWakeWord}

\* What recognize_once can return: nothing, the prototype's utterance (wake
\* word, then a command), and an utterance without the wake word.
Utterances == {<<>>, <<"l", "a", "l", "a", " ", "x">>, <<"x">>}

\* Command texts a caller passes to process_command / process_text_command.
CommandInputs == {<<"x">>, <<"h", "o", "l", "a">>, NoText}

\* agent_planner.process_command results (a dict; keys are read with .get).
PlannerResults ==
    {[success |-> TRUE, response |-> "planner_response", plan |-> "plan"]}

\* process_ai_request results.
ModelResponses ==
    {[text |-> "model_text", model |-> "model_name"]}

\* What agent_planner.process_command can hand back as a dict: with and
\* without the keys process_text_command reads (lines 158-159, 171).
PlannerAnswers ==
    {[success |-> TRUE, response |-> "planner_response", plan |-> "plan"],
     [success |-> TRUE, plan |-> "plan"],
     [success |-> FALSE, response |-> "planner_response"],
     [response |-> "planner_response"]}

\* What ai_router.process_ai_request can hand back as a dict: with and
\* without the keys process_text_command reads (lines 161, 172).
ModelAnswers ==
    {[text |-> "model_text", model |-> "model_name"],
     [text |-> "model_text", response |-> "model_response"],
     [text |-> "", response |-> "model_response", model |-> "model_name"],
     [response |-> "model_response"],
     [model |-> "model_name"]}

\* dict.get(key, default)
Get(d, key, default) == IF key \in DOMAIN d THEN d[key] ELSE default

\* d[key] = value on a dict
Put(d, key, value) ==
    [k \in DOMAIN d \cup {key} |-> IF k = key THEN value ELSE d[k]]

VARIABLES
    argv,                     \* sys.argv flags: a subset of {"--demo", "--offline"}
    assistant,                \* the module-level global `assistant`
    offline_mode,             \* ai_router.offline_mode
    prefer_offline,           \* per assistant: self.prefer_offline
    wake_word,                \* per assistant: self.wake_word
    is_active,                \* per assistant: self.is_active
    is_processing,            \* per assistant: self.is_processing
    last_command,             \* per assistant: self.last_command
    last_response,            \* per assistant: self.last_response
    background_thread,        \* per assistant: self.background_thread
    should_stop_background,   \* per assistant: self.should_stop_background
    pc,                       \* per thread: where the thread is
    self,                     \* per thread: the assistant its frame is bound to
    callback,                 \* per thread: a callback was supplied
    method,                   \* per thread: the assistant method it runs
    api,                      \* the module-level function the caller is in
    command_text,             \* per thread: local of process_text_command
    recognized_text,          \* per thread: local of process_voice_command
    wait_for_response,        \* the caller's argument of process_text_command
    online_available,         \* per thread: local of process_text_command
    is_online,                \* per thread: what is_online() answered (line 142)
    result,                   \* per thread: local `result`
    last_response_before,     \* per thread: last_response when its
                              \* process_text_command call began
    ret,                      \* what the caller's last call returned or raised
    calls,                    \* how many calls the caller has made
    s_text, s_wake, s_out,    \* the string specification: inputs and output
    exchange,                 \* what the latest process_text_command that got
                              \* as far as line 164 received from the planner
                              \* and the AI router and handed to speak
    vosk_env,                 \* vosk_integration.py: VOSK_AVAILABLE and what
                              \* is on disk at model_path
    vosk_recognizer           \* the module's VoskRecognizer instance:
                              \* _is_initialized, and whether model and
                              \* recognizer are set (not None)

asstVars == <<assistant, offline_mode, prefer_offline, wake_word, is_active,
              is_processing, last_command, last_response,
              background_thread, should_stop_background>>
frameVars == <<pc, self, callback, method, api, command_text,
               recognized_text, wait_for_response, online_available, is_online, result,
               last_response_before, ret>>
strVars == <<s_text, s_wake, s_out>>
voskVars == <<vosk_env, vosk_recognizer>>
otherVars == <<strVars, exchange, voskVars>>
vars == <<argv, asstVars, frameVars, calls, otherVars>>

\* A thread object that has been started and has not finished.
is_alive(t) == pc[t] \notin {"unborn", "dead"}

\* ------------------------------------------------------------ result dicts
\* process_voice_command, lines 213-218
NoVoiceResult ==
    [success |-> FALSE, response |-> "no_voice_detected", recognized_text |-> <<>>]

\* process_text_command, lines 183-187
ErrorResult ==
    [success |-> FALSE, response |-> "apology", error |-> "str(e)"]

\* A variant of ResponseText that takes the model's answer whatever the
\* planner said.
ResponseTextOfModel(planning_result, model_response) ==
    IF Get(model_response, "text", "") # ""
    THEN Get(model_response, "text", "")
    ELSE Get(model_response, "response", "")

\* process_text_command, lines 158-161
ResponseText(planning_result, model_response) ==
    IF Get(planning_result, "success", FALSE)
    THEN Get(planning_result, "response", "")
    ELSE IF Get(model_response, "text", "") # ""
         THEN Get(model_response, "text", "")
         ELSE Get(model_response, "response", "")

\* process_text_command, lines 168-174
SuccessResult(planning_result, model_response, online) ==
    [success |-> TRUE,
     response |-> ResponseText(planning_result, model_response),
     plan |-> Get(planning_result, "plan", "{}"),
     model |-> Get(model_response, "model", "offline"),
     online |-> online]

\* A variant of OnlineAvailable that does not look at the preference.
OnlineIgnoringPreference(online, prefer) == online

\* process_text_command, line 142
OnlineAvailable(online, prefer) == online /\ ~prefer

\* process_text_command, line 153
ModelPreference(online) == IF online THEN "auto" ELSE "offline"

\* The except blocks of the module-level functions: lines 427-433, 549-555,
\* 574-580, 599-605, 633-639, 663-669.
ApiError == [success |-> FALSE, error |-> "str(e)"]

\* No call in progress, nothing returned.
NoReturn == [fn |-> "none", caught |-> FALSE, value |-> NoDict]

\* ------------------------------------------------------ the Vosk recognizer
\* A variant of SysImported for a module that has `import sys`.
SysImportedAtTop == TRUE

\* vosk_integration.py, lines 8-14: the module imports os, json, logging,
\* threading, wave, numpy and typing.  It does not import sys, and no other
\* line of the module binds the name.
SysImported == FALSE

\* What the module finds around it: VOSK_AVAILABLE (lines 21-28), and on
\* disk model_path (lines 59, 81) and its "model" directory (line 93).
VoskEnvs ==
    {e \in [VOSK_AVAILABLE : BOOLEAN, model_path : BOOLEAN, model_dir : BOOLEAN] :
        e.model_dir => e.model_path}

\* VoskRecognizer.__init__, lines 52-56
NewRecognizer == [_is_initialized |-> FALSE, model |-> FALSE, recognizer |-> FALSE]

\* A variant of is_initialized that takes every constructed recognizer
\* for an initialized one.
IsConstructed(obj) == TRUE

\* VoskRecognizer.is_initialized, line 121
is_initialized(obj) == obj._is_initialized /\ obj.model /\ obj.recognizer

\* VoskRecognizer.initialize, lines 62-112, on the instance obj: whether it
\* raised, what it returned and the instance afterwards.  Line 70 reads
\* sys.argv, outside the try block.  `loads` says whether Model() and
\* KaldiRecognizer() (lines 99-100) return rather than raise.
initialize_outcome(env, demo_mode, obj, loads) ==
    LET simulated == [raised |-> FALSE, returned |-> TRUE,
                      obj |-> [obj EXCEPT !._is_initialized = TRUE]]
        refused == [raised |-> FALSE, returned |-> FALSE, obj |-> obj]
    IN  IF ~SysImported
        THEN [raised |-> TRUE, returned |-> FALSE, obj |-> obj]
        ELSE IF ~env.VOSK_AVAILABLE
             THEN IF demo_mode THEN simulated ELSE refused
        ELSE IF ~env.model_path
             THEN IF demo_mode THEN simulated ELSE refused
        ELSE IF demo_mode \/ ~env.model_dir
             THEN simulated
        ELSE IF loads
             THEN [raised |-> FALSE, returned |-> TRUE,
                   obj |-> [_is_initialized |-> TRUE, model |-> TRUE,
                            recognizer |-> TRUE]]
        ELSE [raised |-> FALSE, returned |-> FALSE,
              obj |-> [obj EXCEPT !._is_initialized = FALSE]]

\* `recognizer = VoskRecognizer()` at the end of vosk_integration.py, with
\* __init__'s lines 59-60: initialize() is called when Vosk and the model
\* path are there.
Constructed(env, demo_mode, loads) ==
    IF env.VOSK_AVAILABLE /\ env.model_path
    THEN initialize_outcome(env, demo_mode, NewRecognizer, loads)
    ELSE [raised |-> FALSE, returned |-> FALSE, obj |-> NewRecognizer]

\* The modules have been imported in some environment: the construction of
\* the recognizer did not raise.
InitVosk ==
    /\ vosk_env \in VoskEnvs
    /\ \E loads \in BOOLEAN :
          LET made == Constructed(vosk_env, "--demo" \in argv, loads)
          IN  ~made.raised /\ vosk_recognizer = made.obj

\* Vosk is not installed and there is no model.
VoskAbsent ==
    /\ vosk_env = [VOSK_AVAILABLE |-> FALSE, model_path |-> FALSE,
                   model_dir |-> FALSE]
    /\ vosk_recognizer = NewRecognizer

\* process_audio_file, line 162: frames asked of the file at a time.
ChunkFrames == 4000

\* The lengths, in frames, of the files read: none, and up to MaxChunks
\* chunks, the last one full or of a single frame.
FrameCounts ==
    {k * ChunkFrames + r : k \in 0..(MaxChunks - 1), r \in {0, 1}}
        \cup {MaxChunks * ChunkFrames}

\* The files a caller names: missing; there but such that wave.open raises
\* (not a WAV file, or a compressed one, which the wave module refuses to
\* open); or a PCM file with its header and length.
AudioFiles ==
    {[exists |-> FALSE]}
      \cup {[exists |-> TRUE, kind |-> k] : k \in {"compressed", "malformed"}}
      \cup [exists : {TRUE}, kind : {"pcm"}, nchannels : {1, 2},
            sampwidth : {1, 2}, nframes : FrameCounts]

\* Wave_read.getcomptype() of an opened file.
getcomptype(file) == "NONE"

\* The texts in the recognizer's JSON results.
VoskTexts == {<<>>, <<"x">>, <<"y", " ">>}

\* json.loads of what Result() and FinalResult() hand back.
VoskResults == {[text |-> t] : t \in VoskTexts} \cup {[confidence |-> 1]}

\* What the recognizer does with a chunk: AcceptWaveform answers False, or
\* True with a Result(), or one of the two raises.
ChunkAnswers ==
    {[accepted |-> FALSE], [raises |-> TRUE]}
      \cup {[accepted |-> TRUE, result |-> r] : r \in VoskResults}

\* What the recognizer does during one call: whether reset()'s
\* KaldiRecognizer() returns, its answer to each chunk, and FinalResult().
VoskScripts ==
    [resets : BOOLEAN, chunks : [1..MaxChunks -> ChunkAnswers],
     final : VoskResults \cup {[raises |-> TRUE]}]

\* process_audio_file, lines 170-171 and 177-178
Appended(results, r) ==
    IF "text" \in DOMAIN r /\ r.text # <<>> THEN Append(results, r.text) ELSE results

\* process_audio_file, lines 161-171: the loop, from frame `pos` on;
\* wf.readframes(4000) hands back what is left, up to 4000 frames.  `so_far`
\* holds results, the chunks fed to the recognizer and the Result() dicts
\* it handed back.
RECURSIVE ReadLoop(_, _, _, _)
ReadLoop(nframes, pos, chunks, so_far) ==
    LET left == nframes - pos
        n == IF left < ChunkFrames THEN left ELSE ChunkFrames
        answer == chunks[Len(so_far.fed) + 1]
        fed_now == Append(so_far.fed, <<pos, n>>)
    IN  IF n = 0
        THEN [raised |-> FALSE] @@ so_far
        ELSE IF "raises" \in DOMAIN answer
             THEN [raised |-> TRUE] @@ [so_far EXCEPT !.fed = fed_now]
        ELSE IF answer.accepted
             THEN ReadLoop(nframes, pos + n, chunks,
                           [results |-> Appended(so_far.results, answer.result),
                            fed |-> fed_now,
                            heard |-> Append(so_far.heard, answer.result)])
        ELSE ReadLoop(nframes, pos + n, chunks, [so_far EXCEPT !.fed = fed_now])

\* " ".join(texts)
RECURSIVE Join(_)
Join(texts) ==
    IF texts = <<>> THEN <<>>
    ELSE IF Len(texts) = 1 THEN texts[1]
    ELSE texts[1] \o <<" ">> \o Join(Tail(texts))

\* The except block of process_audio_file, lines 190-192
AudioError == [success |-> FALSE, error |-> "str(e)"]

\* VoskRecognizer.process_audio_file, lines 138-192, on the instance obj:
\* what it returns, the chunks it fed to the recognizer and the Result()
\* and FinalResult() dicts it got back.
AudioFileResult(obj, file, script) ==
    LET unfed == [fed |-> <<>>, heard |-> <<>>, final |-> NoDict]
    IN  IF ~is_initialized(obj)
        THEN [value |-> [success |-> FALSE, error |-> "not_initialized"]] @@ unfed
        ELSE IF ~file.exists
        THEN [value |-> [success |-> FALSE, error |-> "not_found"]] @@ unfed
        ELSE IF ~script.resets \/ file.kind # "pcm"
        THEN [value |-> AudioError] @@ unfed
        ELSE IF file.nchannels # 1 \/ file.sampwidth # 2
                  \/ getcomptype(file) # "NONE"
        THEN [value |-> [success |-> FALSE, error |-> "unsupported_format"]] @@ unfed
        ELSE LET read == ReadLoop(file.nframes, 0, script.chunks,
                                  [results |-> <<>>, fed |-> <<>>, heard |-> <<>>])
                 results == Appended(read.results, script.final)
             IN  IF read.raised \/ "raises" \in DOMAIN script.final
                 THEN [value |-> AudioError, fed |-> read.fed,
                       heard |-> read.heard, final |-> NoDict]
                 ELSE [value |-> [success |-> TRUE, text |-> strip(Join(results)),
                                  confidence |-> Get(script.final, "confidence", 0),
                                  partial |-> FALSE],
                       fed |-> read.fed, heard |-> read.heard,
                       final |-> script.final]

\* --------------------------------------------------------------- Init
\* The module has been imported: `assistant = LalaAssistant()` (line 395).
InitProgram ==
    /\ assistant = 1
    /\ offline_mode = FALSE
    /\ prefer_offline = [a \in Assistants |-> FALSE]
    /\ wake_word = [a \in Assistants |-> DefaultWakeWord]
    /\ is_active = [a \in Assistants |-> FALSE]
    /\ is_processing = [a \in Assistants |-> FALSE]
    /\ last_command = [a \in Assistants |-> NoText]
    /\ last_response = [a \in Assistants |-> NoDict]
    /\ background_thread = [a \in Assistants |-> NoThread]
    /\ should_stop_background = [a \in Assistants |-> FALSE]
    /\ pc = [t \in Threads |-> IF t = Caller THEN "idle" ELSE "unborn"]
    /\ self = [t \in Threads |-> 1]
    /\ callback = [t \in Threads |-> FALSE]
    /\ method = [t \in Threads |-> "none"]
    /\ api = "none"
    /\ command_text = [t \in Threads |-> NoText]
    /\ recognized_text = [t \in Threads |-> NoText]
    /\ wait_for_response = TRUE
    /\ online_available = [t \in Threads |-> FALSE]
    /\ is_online = [t \in Threads |-> FALSE]
    /\ result = [t \in Threads |-> NoDict]
    /\ last_response_before = [t \in Threads |-> NoDict]
    /\ ret = NoReturn
    /\ calls = 0
    /\ exchange = NoDict

\* The process was started with any of the two flags the module reads.
Init ==
    /\ argv \in SUBSET {"--demo", "--offline"}
    /\ InitProgram
    /\ VoskAbsent
    /\ s_text = <<>>
    /\ s_wake = <<>>
    /\ s_out = NoText

\* ------------------------------------------------- returning and raising
\* A variant of ProcessCommandExcept that answers with the simulated result
\* whatever the flags are.
ProcessCommandExceptSimulated ==
    [success |-> TRUE, response |-> "demo_generic", model |-> "offline-demo",
     online |-> FALSE, simulated |-> TRUE]

\* process_command, lines 518-534: its except block.
ProcessCommandExcept ==
    IF "--demo" \in argv
    THEN [success |-> TRUE, response |-> "demo_generic", model |-> "offline-demo",
          online |-> FALSE, simulated |-> TRUE]
    ELSE ApiError

\* The locals of thread t's frame are gone.
FrameCleared(t) ==
    /\ command_text' = [command_text EXCEPT ![t] = NoText]
    /\ recognized_text' = [recognized_text EXCEPT ![t] = NoText]
    /\ online_available' = [online_available EXCEPT ![t] = FALSE]
    /\ is_online' = [is_online EXCEPT ![t] = FALSE]
    /\ last_response_before' = [last_response_before EXCEPT ![t] = NoDict]
    /\ wait_for_response' = IF t = Caller THEN TRUE ELSE wait_for_response
    /\ method' = [method EXCEPT ![t] = IF t = Caller THEN "none" ELSE @]
    /\ api' = IF t = Caller THEN "none" ELSE api
    /\ UNCHANGED callback

\* Thread t's assistant method `name`, called from the module-level
\* function `wrapper` or directly ("none"), returns `value`.  The caller gets
\* it (process_command and listen_for_command return it as it is, lines 516
\* and 547).  A background thread has it in its local `result` (line 279).
ReturnTo(t, name, wrapper, value) ==
    /\ pc' = [pc EXCEPT ![t] = IF t = Caller THEN "returned" ELSE "result"]
    /\ result' = [result EXCEPT ![t] = IF t = Caller THEN NoDict ELSE value]
    /\ ret' = IF t = Caller
              THEN [fn |-> IF wrapper = "none" THEN name ELSE wrapper,
                    caught |-> FALSE, value |-> value]
              ELSE ret
    /\ FrameCleared(t)

\* An exception leaves thread t's assistant method: the background loop
\* catches it and sleeps (lines 285-287); the module-level function of the
\* caller catches it; a direct call lets it reach the caller.
RaiseFrom(t, name, wrapper) ==
    /\ pc' = [pc EXCEPT ![t] = IF t = Caller THEN "returned" ELSE "loop"]
    /\ result' = [result EXCEPT ![t] = NoDict]
    /\ ret' = IF t # Caller THEN ret
              ELSE IF wrapper = "none"
                   THEN [fn |-> name, caught |-> FALSE, value |-> [raised |-> TRUE]]
                   ELSE [fn |-> wrapper, caught |-> TRUE,
                         value |-> IF wrapper = "process_command"
                                   THEN ProcessCommandExcept ELSE ApiError]
    /\ FrameCleared(t)

\* -------------------------------------------------------- the pipeline
\* process_text_command(text, wait), lines 137-142, entered by thread t in
\* method `name` under `wrapper`, `heard` being the recognized text of a
\* voice command: the state is updated; then is_online() answers, or raises
\* outside the try block, and the exception leaves process_text_command
\* with is_processing still set.
EnterTextCommand(t, a, name, wrapper, text, heard, wait, answer) ==
    /\ self' = [self EXCEPT ![t] = a]
    /\ is_processing' = [is_processing EXCEPT ![a] = TRUE]
    /\ last_command' = [last_command EXCEPT ![a] = text]
    /\ IF answer = "raise"
       THEN RaiseFrom(t, name, wrapper)
       ELSE /\ pc' = [pc EXCEPT ![t] = "body"]
            /\ method' = [method EXCEPT ![t] = name]
            /\ api' = IF t = Caller THEN wrapper ELSE api
            /\ command_text' = [command_text EXCEPT ![t] = text]
            /\ recognized_text' = [recognized_text EXCEPT ![t] = heard]
            /\ wait_for_response' = IF t = Caller THEN wait ELSE wait_for_response
            /\ is_online' = [is_online EXCEPT ![t] = (answer = "online")]
            /\ online_available' =
                 [online_available EXCEPT
                    ![t] = OnlineAvailable(answer = "online", prefer_offline[a])]
            /\ last_response_before' =
                 [last_response_before EXCEPT ![t] = last_response[a]]
            /\ UNCHANGED <<callback, result, ret>>

\* A variant of NothingRecognized for which every text is a command.
AlwaysRecognized(text) == FALSE

\* process_voice_command, line 213: `not recognized_text`
NothingRecognized(text) == text = <<>>

\* process_voice_command, lines 204-233: recognize_once returns a text; an
\* empty text returns at once, another text is stripped of the wake word
\* and handed to process_text_command (with wait_for_response at its default).
Recognize(t) ==
    /\ pc[t] = "voice"
    /\ UNCHANGED calls
    /\ \E text \in Utterances, answer \in {"online", "offline", "raise"} :
         IF NothingRecognized(text)
         THEN /\ ReturnTo(t, method[t], api, NoVoiceResult)
              /\ UNCHANGED <<self, is_processing, last_command>>
         ELSE EnterTextCommand(t, self[t], method[t], api,
                               ExtractCommand(text, wake_word[self[t]]),
                               text, TRUE, answer)
    /\ UNCHANGED <<argv, assistant, offline_mode, prefer_offline, wake_word,
                   is_active, last_response, background_thread,
                   should_stop_background, otherVars>>

\* process_text_command, lines 157-177: the response is chosen, spoken when
\* wait_for_response, and the result is built (and stored by Body).
Answer(t, planning_result, model_response) ==
    SuccessResult(planning_result, model_response, online_available[t])

\* A variant of Delivered that returns the dict as process_text_command
\* gave it.
DeliveredAsGiven(t, r) == r

\* process_voice_command, lines 235-238: recognized_text is added to the
\* dict that process_text_command returned (the dict last_response refers
\* to when the call succeeded).
Delivered(t, r) ==
    IF method[t] = "process_voice_command"
    THEN Put(r, "recognized_text", recognized_text[t]) ELSE r

\* process_text_command's wait_for_response in thread t's call:
\* process_voice_command leaves it at its default (line 233).
Waits(t) == IF t = Caller THEN wait_for_response ELSE TRUE

\* process_text_command, lines 144-192, and the return through
\* process_voice_command, lines 233-238, with what the planner and the AI
\* router can answer: the planner answers or raises, then the AI router
\* (asked with ModelPreference(online_available)) answers or raises; the
\* response is handed to speak when wait_for_response (lines 164-165; the
\* text-to-speech service of core.py does not raise).  On success the
\* result is stored as last_response; the except block stores nothing.
\* Then is_processing is cleared and the result returned.
BodyWith(t, planners, models) ==
    /\ pc[t] = "body"
    /\ UNCHANGED calls
    /\ \/ \E raiser \in {"agent_planner", "process_ai_request"} :
            /\ ReturnTo(t, method[t], api, Delivered(t, ErrorResult))
            /\ UNCHANGED <<last_response, exchange>>
       \/ \E planning_result \in planners, model_response \in models :
            LET r == Delivered(t, Answer(t, planning_result, model_response))
            IN  /\ ReturnTo(t, method[t], api, r)
                /\ last_response' = [last_response EXCEPT ![self[t]] = r]
                /\ exchange' =
                     [planning_result |-> planning_result,
                      model_response |-> model_response,
                      spoken |-> IF Waits(t)
                                 THEN <<ResponseText(planning_result, model_response)>>
                                 ELSE <<>>]
    /\ is_processing' = [is_processing EXCEPT ![self[t]] = FALSE]
    /\ UNCHANGED <<argv, assistant, offline_mode, prefer_offline, wake_word,
                   is_active, last_command, background_thread,
                   should_stop_background, self, strVars, voskVars>>

Body(t) == BodyWith(t, PlannerResults, ModelResponses)

\* ------------------------------------------- the background listening thread
\* background_listening_thread, line 268
LoopCondition(a) == ~should_stop_background[a]

\* background_listening_thread, line 277
GuardCondition(a) == ~is_processing[a] /\ ~should_stop_background[a]

\* background_listening_thread, lines 268-279: the loop test ends the thread
\* when the flag is set; otherwise the thread sleeps 2 s and, when nothing
\* is being processed and the flag is not set, calls process_voice_command.
Poll(t) ==
    /\ pc[t] = "loop"
    /\ UNCHANGED calls
    /\ pc' = [pc EXCEPT ![t] = IF ~LoopCondition(self[t]) THEN "dead"
                                ELSE IF GuardCondition(self[t]) THEN "voice"
                                ELSE "loop"]
    /\ UNCHANGED <<argv, asstVars, otherVars>>
    /\ UNCHANGED <<self, callback, method, api, command_text,
                   recognized_text, wait_for_response, online_available, is_online, result,
                   last_response_before, ret>>

\* A variant of CallbackCondition that does not look at the result.
CallbackSupplied(cb, value) == cb

\* background_listening_thread, line 282; cb: a callable callback was given.
CallbackCondition(cb, value) == cb /\ Get(value, "success", FALSE)

\* background_listening_thread, lines 281-283: the callback is called with
\* the result when CallbackCondition holds; otherwise the thread goes round
\* the loop.
Deliver(t) ==
    /\ pc[t] = "result"
    /\ UNCHANGED calls
    /\ IF CallbackCondition(callback[t], result[t])
       THEN /\ pc' = [pc EXCEPT ![t] = "in_callback"]
            /\ UNCHANGED result
       ELSE /\ pc' = [pc EXCEPT ![t] = "loop"]
            /\ result' = [result EXCEPT ![t] = NoDict]
    /\ UNCHANGED <<argv, asstVars, otherVars>>
    /\ UNCHANGED <<self, callback, method, api, command_text,
                   recognized_text, wait_for_response, online_available,
                   is_online, last_response_before, ret>>

\* background_listening_thread, lines 283-287: the callback returns, or it
\* raises and the loop's except block catches the exception and sleeps.
CallbackEnds(t) ==
    /\ pc[t] = "in_callback"
    /\ UNCHANGED calls
    /\ \E outcome \in {"returns", "raises"} :
         pc' = [pc EXCEPT ![t] = "loop"]
    /\ result' = [result EXCEPT ![t] = NoDict]
    /\ UNCHANGED <<argv, asstVars, otherVars>>
    /\ UNCHANGED <<self, callback, method, api, command_text,
                   recognized_text, wait_for_response, online_available,
                   is_online, last_response_before, ret>>

\* ------------------------------------------------ the module-level API
\* The keywords of process_command's demonstration branch, lines 452-496.
KwHola == <<"h", "o", "l", "a">>
KwQuePuedesHacer == <<"q", "u", "e_acute", " ", "p", "u", "e", "d", "e", "s", " ", "h", "a", "c", "e", "r">>
KwFunciones == <<"f", "u", "n", "c", "i", "o", "n", "e", "s">>
KwClima == <<"c", "l", "i", "m", "a">>
KwAlarma == <<"a", "l", "a", "r", "m", "a">>
KwMensaje == <<"m", "e", "n", "s", "a", "j", "e">>
KwAbre == <<"a", "b", "r", "e">>
KwAbrir == <<"a", "b", "r", "i", "r">>
KwMapas == <<"m", "a", "p", "a", "s">>
KwYoutube == <<"y", "o", "u", "t", "u", "b", "e">>
KwCamara == <<"c", "a_acute", "m", "a", "r", "a">>

\* keyword in command_text.lower()
Says(text, keyword) == contains(lower(text), keyword)

\* process_command, lines 499-505: the f-string response and the plan's app_name
AppName(text) ==
    IF Says(text, KwMapas) THEN "mapas"
    ELSE IF Says(text, KwYoutube) THEN "youtube"
    ELSE IF Says(text, KwCamara) THEN "camara"
    ELSE "mapas"

DemoBase(response) ==
    [success |-> TRUE, response |-> response, model |-> "offline-demo",
     online |-> FALSE]

\* process_command, lines 450-513: the canned result of the demonstration
\* branch for a str command_text.
DemoResult(text) ==
    IF Says(text, KwHola) THEN DemoBase("demo_hola")
    ELSE IF Says(text, KwQuePuedesHacer) \/ Says(text, KwFunciones)
         THEN DemoBase("demo_funciones")
    ELSE IF Says(text, KwClima)
         THEN Put(DemoBase("demo_clima"), "plan", "get_weather")
    ELSE IF Says(text, KwAlarma)
         THEN Put(DemoBase("demo_alarma"), "plan", "set_alarm")
    ELSE IF Says(text, KwMensaje)
         THEN Put(DemoBase("demo_mensaje"), "plan", "send_message")
    ELSE IF Says(text, KwAbre) \/ Says(text, KwAbrir)
         THEN Put(Put(DemoBase("demo_abriendo"), "plan", "open_app"),
                  "app_name", AppName(text))
    ELSE DemoBase("demo_generic")

\* A variant of DemoMode that looks at --demo alone.
DemoFlagAlone == "--demo" \in argv

\* process_command, line 450
DemoMode == "--demo" \in argv \/ "--offline" \in argv

\* The caller, between two calls, makes its next call.
Called ==
    /\ pc[Caller] = "idle"
    /\ calls < MaxCalls
    /\ calls' = calls + 1

\* A call of the caller that does not block returns or raises.
CallerDone(fn, caught, value) ==
    /\ pc' = [pc EXCEPT ![Caller] = "returned"]
    /\ ret' = [fn |-> fn, caught |-> caught, value |-> value]
    /\ UNCHANGED <<self, callback, method, api, command_text,
                   recognized_text, wait_for_response, online_available, is_online, result,
                   last_response_before>>

\* process_command(command_text), lines 436-534.  None has no lower(): in
\* the demonstration branch that raises, and the except block answers.
\* Otherwise process_text_command of the global assistant is entered.
process_command(command, answer) ==
    /\ Called
    /\ IF DemoMode
       THEN /\ IF command = NoText
               THEN CallerDone("process_command", TRUE, ProcessCommandExcept)
               ELSE CallerDone("process_command", FALSE, DemoResult(command))
            /\ UNCHANGED <<is_processing, last_command>>
       ELSE EnterTextCommand(Caller, assistant, "process_text_command",
                             "process_command", command, NoText, TRUE, answer)
    /\ UNCHANGED <<argv, assistant, offline_mode, prefer_offline, wake_word,
                   is_active, last_response, background_thread,
                   should_stop_background, otherVars>>

\* LalaAssistant.process_text_command(command_text, wait_for_response) called
\* on the global assistant.
process_text_command(command, wait, answer) ==
    /\ Called
    /\ EnterTextCommand(Caller, assistant, "process_text_command", "none",
                        command, NoText, wait, answer)
    /\ UNCHANGED <<argv, assistant, offline_mode, prefer_offline, wake_word,
                   is_active, last_response, background_thread,
                   should_stop_background, otherVars>>

\* The caller enters process_voice_command of the global assistant, directly
\* or from listen_for_command (line 547).
EnterVoice(wrapper) ==
    /\ Called
    /\ pc' = [pc EXCEPT ![Caller] = "voice"]
    /\ self' = [self EXCEPT ![Caller] = assistant]
    /\ method' = [method EXCEPT ![Caller] = "process_voice_command"]
    /\ api' = wrapper
    /\ UNCHANGED <<callback, command_text, recognized_text,
                   wait_for_response, online_available, is_online, result,
                   last_response_before, ret>>
    /\ UNCHANGED <<argv, asstVars, otherVars>>

\* listen_for_command(), lines 537-555
listen_for_command == EnterVoice("listen_for_command")

\* LalaAssistant.process_voice_command() called on the global assistant.
process_voice_command == EnterVoice("none")

\* ------------------------------------------------ starting and stopping
\* `self.background_thread and self.background_thread.is_alive()`
HasLiveThread(a) ==
    background_thread[a] # NoThread /\ is_alive(background_thread[a])

\* The value a call returns: a module-level function wraps the method's
\* bool in {"success": ...} (lines 570-572, 595-597).
Returned(wrapper, ok) ==
    IF wrapper = "none" THEN [returned |-> ok] ELSE [success |-> ok]

\* Lines 109-111, 254-256, 308-310: the flag is set and the caller waits in
\* join(timeout=2.0).
BeginJoin(a, name, wrapper, cb) ==
    /\ should_stop_background' = [should_stop_background EXCEPT ![a] = TRUE]
    /\ pc' = [pc EXCEPT ![Caller] = "join"]
    /\ self' = [self EXCEPT ![Caller] = a]
    /\ method' = [method EXCEPT ![Caller] = name]
    /\ api' = wrapper
    /\ callback' = [callback EXCEPT ![Caller] = cb]
    /\ UNCHANGED <<background_thread, is_active, command_text,
                   recognized_text, wait_for_response, online_available, is_online, result,
                   last_response_before, ret>>

\* start_background_listening, line 259
FlagAfterStart(a) == FALSE

\* start_background_listening, lines 258-296: the flag is reset and a new
\* thread is created and started; Thread.start() can raise RuntimeError,
\* which leaves background_thread a thread that never ran (is_alive() is
\* false for it, as `background_thread and ...` is for None).
StartThread(a, name, wrapper, cb) ==
    /\ should_stop_background' =
         [should_stop_background EXCEPT ![a] = FlagAfterStart(a)]
    /\ \/ \E t \in Background :
            /\ pc[t] = "unborn"
            /\ \A u \in Background : pc[u] = "unborn" => t <= u
            /\ background_thread' = [background_thread EXCEPT ![a] = t]
            /\ pc' = [pc EXCEPT ![Caller] = "returned", ![t] = "loop"]
            /\ self' = [self EXCEPT ![t] = a]
            /\ callback' = [callback EXCEPT ![Caller] = FALSE, ![t] = cb]
            /\ method' = [method EXCEPT ![Caller] = "none",
                                        ![t] = "process_voice_command"]
            /\ ret' = [fn |-> IF wrapper = "none" THEN name ELSE wrapper,
                       caught |-> FALSE, value |-> Returned(wrapper, TRUE)]
       \/ /\ background_thread' = [background_thread EXCEPT ![a] = NoThread]
          /\ pc' = [pc EXCEPT ![Caller] = "returned"]
          /\ callback' = [callback EXCEPT ![Caller] = FALSE]
          /\ method' = [method EXCEPT ![Caller] = "none"]
          /\ ret' = IF wrapper = "none"
                    THEN [fn |-> name, caught |-> FALSE, value |-> [raised |-> TRUE]]
                    ELSE [fn |-> wrapper, caught |-> TRUE, value |-> ApiError]
          /\ UNCHANGED self
    /\ api' = "none"
    /\ UNCHANGED <<is_active, command_text, recognized_text,
                   wait_for_response, online_available, is_online, result,
                   last_response_before>>

\* Lines 312-315 of stop_background_listening, 113-121 of stop: the rest of
\* the call after the join; stop() also clears is_active.
StopDone(a, name, wrapper) ==
    /\ is_active' = [is_active EXCEPT ![a] = IF name = "stop" THEN FALSE ELSE @]
    /\ pc' = [pc EXCEPT ![Caller] = "returned"]
    /\ method' = [method EXCEPT ![Caller] = "none"]
    /\ api' = "none"
    /\ callback' = [callback EXCEPT ![Caller] = FALSE]
    /\ ret' = [fn |-> IF wrapper = "none" THEN name ELSE wrapper,
               caught |-> FALSE, value |-> Returned(wrapper, TRUE)]
    /\ UNCHANGED <<should_stop_background, background_thread, self,
                   command_text, recognized_text, wait_for_response,
                   online_available, is_online, result, last_response_before>>

otherAsst == <<argv, assistant, offline_mode, prefer_offline, wake_word,
               is_processing, last_command, last_response, otherVars>>

\* LalaAssistant.start_background_listening(callback), lines 240-296, called
\* on the global assistant directly or by start_continuous_listening() (lines
\* 558-580), which passes no callback.
start_background_listening(wrapper, cb) ==
    /\ Called
    /\ \E t \in Background : pc[t] = "unborn"
    /\ wrapper = "start_continuous_listening" => ~cb
    /\ IF HasLiveThread(assistant)
       THEN BeginJoin(assistant, "start_background_listening", wrapper, cb)
       ELSE StartThread(assistant, "start_background_listening", wrapper, cb)
    /\ UNCHANGED otherAsst

\* LalaAssistant.stop_background_listening(), lines 298-315, called directly
\* or by stop_continuous_listening() (lines 583-605).
stop_background_listening(wrapper) ==
    /\ Called
    /\ IF HasLiveThread(assistant)
       THEN BeginJoin(assistant, "stop_background_listening", wrapper, FALSE)
       ELSE StopDone(assistant, "stop_background_listening", wrapper)
    /\ UNCHANGED otherAsst

\* LalaAssistant.stop(), lines 99-121
stop ==
    /\ Called
    /\ IF HasLiveThread(assistant)
       THEN BeginJoin(assistant, "stop", "none", FALSE)
       ELSE StopDone(assistant, "stop", "none")
    /\ UNCHANGED otherAsst

\* Thread.join(timeout=2.0) returns when the thread has ended or when the
\* timeout has passed, whichever comes first.  The thread's sleep is as long
\* as the timeout (line 274) and a recognition or a request can take longer,
\* so the timeout can pass wherever the thread is.
JoinCanReturn(a) == TRUE

\* The caller's join returns and the call goes on.
JoinReturns ==
    /\ pc[Caller] = "join"
    /\ UNCHANGED calls
    /\ JoinCanReturn(self[Caller])
    /\ IF method[Caller] = "start_background_listening"
       THEN StartThread(self[Caller], method[Caller], api, callback[Caller])
       ELSE StopDone(self[Caller], method[Caller], api)
    /\ UNCHANGED otherAsst

\* --------------------------------------------------------- configuration
\* A variant of WakeWordValid that only rejects the empty string.
WakeWordNonEmpty(new_wake_word) == new_wake_word # <<>>

\* set_wake_word, line 327: `not wake_word or len(wake_word) < 2` rejects.
WakeWordValid(new_wake_word) ==
    ~(new_wake_word = <<>> \/ Len(new_wake_word) < 2)

frameButRet == <<self, callback, method, api, command_text,
                 recognized_text, wait_for_response, online_available, is_online, result,
                 last_response_before>>

\* LalaAssistant.set_wake_word(wake_word) on the global assistant, 317-337
set_wake_word(new_wake_word) ==
    /\ Called
    /\ pc' = [pc EXCEPT ![Caller] = "returned"]
    /\ wake_word' = [wake_word EXCEPT
                       ![assistant] = IF WakeWordValid(new_wake_word)
                                      THEN new_wake_word ELSE @]
    /\ ret' = [fn |-> "set_wake_word", caught |-> FALSE,
               value |-> [returned |-> WakeWordValid(new_wake_word)]]
    /\ UNCHANGED <<argv, assistant, offline_mode, prefer_offline, is_active,
                   is_processing, last_command, last_response,
                   background_thread, should_stop_background, otherVars,
                   frameButRet>>

\* LalaAssistant.set_offline_preference(prefer_offline), lines 339-358
set_offline_preference(prefer) ==
    /\ Called
    /\ pc' = [pc EXCEPT ![Caller] = "returned"]
    /\ prefer_offline' = [prefer_offline EXCEPT ![assistant] = prefer]
    /\ offline_mode' = prefer
    /\ ret' = [fn |-> "set_offline_preference", caught |-> FALSE,
               value |-> [returned |-> TRUE]]
    /\ UNCHANGED <<argv, assistant, wake_word, is_active,
                   is_processing, last_command, last_response,
                   background_thread, should_stop_background, otherVars,
                   frameButRet>>

\* The config dicts a caller passes to update_configuration.
ConfigInputs ==
    {<<>>}
      \cup {[wake_word |-> w] : w \in WakeWordInputs}
      \cup {[prefer_offline |-> p] : p \in BOOLEAN}
      \cup {[wake_word |-> w, prefer_offline |-> p] :
              w \in WakeWordInputs, p \in BOOLEAN}

\* A variant of ConfiguredPreference that drops the preference of a request
\* whose wake word is rejected.
PreferenceUnlessRejected(config, current) ==
    IF "prefer_offline" \in DOMAIN config
         /\ ("wake_word" \in DOMAIN config => WakeWordValid(config["wake_word"]))
    THEN config["prefer_offline"] ELSE current

\* update_configuration, lines 625-626: the preference after the request,
\* `current` being the one before it.
ConfiguredPreference(config, current) ==
    IF "prefer_offline" \in DOMAIN config THEN config["prefer_offline"] ELSE current

\* update_configuration(config), lines 608-639.  set_wake_word's answer is
\* dropped (line 623).  get_configuration() calls get_optimal_models_config()
\* and is_online(), which answer or raise.  The caller keeps the config it
\* passed next to what it got back.
update_configuration(config, config_raises) ==
    LET a == assistant
        w == IF "wake_word" \in DOMAIN config /\ WakeWordValid(config["wake_word"])
             THEN config["wake_word"] ELSE wake_word[a]
        p == ConfiguredPreference(config, prefer_offline[a])
    IN  /\ Called
        /\ pc' = [pc EXCEPT ![Caller] = "returned"]
        /\ wake_word' = [wake_word EXCEPT ![a] = w]
        /\ prefer_offline' = [prefer_offline EXCEPT ![a] = p]
        /\ offline_mode' = ConfiguredPreference(config, offline_mode)
        /\ ret' = IF config_raises
                  THEN [fn |-> "update_configuration", caught |-> TRUE,
                        value |-> ApiError, passed |-> config]
                  ELSE [fn |-> "update_configuration", caught |-> FALSE,
                        value |-> [success |-> TRUE,
                                   config |-> [wake_word |-> w, prefer_offline |-> p,
                                               is_active |-> is_active[a],
                                               is_processing |-> is_processing[a]]],
                        passed |-> config]
        /\ UNCHANGED <<argv, assistant, is_active, is_processing, last_command,
                       last_response, background_thread,
                       should_stop_background, otherVars, frameButRet>>

\* initialize_assistant(user_id, prefer_offline, wake_word), lines 399-433:
\* a new LalaAssistant replaces the global one (__init__, lines 37-71), then
\* start() (lines 73-97) and get_configuration(); get_optimal_models_config()
\* and is_online() answer or raise.
initialize_assistant(prefer, new_wake_word, outcome) ==
    LET a == assistant + 1
    IN  /\ Called
        /\ pc' = [pc EXCEPT ![Caller] = "returned"]
        /\ assistant < MaxAssistants
        /\ assistant' = a
        /\ prefer_offline' = [prefer_offline EXCEPT ![a] = prefer]
        /\ wake_word' = [wake_word EXCEPT ![a] = new_wake_word]
        /\ offline_mode' = prefer
        /\ is_active' = [is_active EXCEPT ![a] = (outcome # "start_raises")]
        /\ is_processing' = [is_processing EXCEPT ![a] = FALSE]
        /\ last_command' = [last_command EXCEPT ![a] = NoText]
        /\ last_response' = [last_response EXCEPT ![a] = NoDict]
        /\ background_thread' = [background_thread EXCEPT ![a] = NoThread]
        /\ should_stop_background' = [should_stop_background EXCEPT ![a] = FALSE]
        /\ ret' = IF outcome = "ok"
                  THEN [fn |-> "initialize_assistant", caught |-> FALSE,
                        value |-> [success |-> TRUE,
                                   config |-> [wake_word |-> new_wake_word,
                                               prefer_offline |-> prefer,
                                               is_active |-> TRUE,
                                               is_processing |-> FALSE]]]
                  ELSE [fn |-> "initialize_assistant", caught |-> TRUE,
                        value |-> ApiError]
        /\ UNCHANGED <<argv, otherVars, frameButRet>>

\* get_assistant_status(), lines 642-669; is_online() answers or raises.
get_assistant_status(online_raises) ==
    /\ Called
    /\ CallerDone("get_assistant_status", online_raises,
                  IF online_raises THEN ApiError
                  ELSE [success |-> TRUE,
                        status |-> [is_active |-> is_active[assistant],
                                    is_processing |-> is_processing[assistant],
                                    last_command |-> last_command[assistant]]])
    /\ UNCHANGED <<argv, asstVars, otherVars>>

\* ------------------------------------------------------------------ Next
\* The caller has taken the value its call returned and is ready to call again.
\* VoskRecognizer.initialize() called on the module's instance.
initialize(loads) ==
    LET out == initialize_outcome(vosk_env, "--demo" \in argv, vosk_recognizer, loads)
    IN  /\ Called
        /\ pc' = [pc EXCEPT ![Caller] = "returned"]
        /\ vosk_recognizer' = out.obj
        /\ ret' = [fn |-> "initialize", caught |-> FALSE,
                   value |-> IF out.raised THEN [raised |-> TRUE]
                                           ELSE [returned |-> out.returned]]
        /\ UNCHANGED <<argv, asstVars, strVars, exchange, vosk_env, frameButRet>>

\* main.initialize_components(model_size_mb, prefer_offline), main.py lines
\* 77-128.  In the try block: the directories, the model configuration and
\* the NLP processor are set up (lines 97-103); vosk_recognizer.initialize()
\* is called when is_initialized() is false (lines 106-110); the TTS engine
\* is set up (lines 113-117); then ai_router.offline_mode is assigned (line
\* 120).  Any of the calls may raise (`other` says which of the others
\* does); the except block returns the results so far with an error.  The
\* assistant is not touched.  The caller keeps what it passed.
initialize_components(prefer, other, loads) ==
    LET out == initialize_outcome(vosk_env, "--demo" \in argv, vosk_recognizer, loads)
        reaches_vosk == other # "before_vosk" /\ ~is_initialized(vosk_recognizer)
        failed == \/ other = "before_vosk"
                  \/ reaches_vosk /\ out.raised
                  \/ other = "tts_engine"
    IN  /\ Called
        /\ pc' = [pc EXCEPT ![Caller] = "returned"]
        /\ vosk_recognizer' = IF reaches_vosk THEN out.obj ELSE vosk_recognizer
        /\ offline_mode' = IF failed THEN offline_mode ELSE prefer
        /\ ret' = [fn |-> "initialize_components", caught |-> failed,
                   value |-> IF failed THEN [error |-> "str(e)"]
                                       ELSE [offline_mode |-> prefer],
                   passed |-> prefer]
        /\ UNCHANGED <<argv, assistant, prefer_offline, wake_word, is_active,
                       is_processing, last_command, last_response,
                       background_thread, should_stop_background, strVars,
                       exchange, vosk_env, frameButRet>>

Continue ==
    /\ pc[Caller] = "returned"
    /\ UNCHANGED calls
    /\ pc' = [pc EXCEPT ![Caller] = "idle"]
    /\ ret' = NoReturn
    /\ UNCHANGED <<argv, asstVars, otherVars, frameButRet>>

\* What is_online() does for a call: answers True or False, or raises.
Connectivity == {"online", "offline", "raise"}

Next ==
    \/ \E command \in CommandInputs, answer \in Connectivity :
         process_command(command, answer)
    \/ \E command \in CommandInputs, wait \in BOOLEAN, answer \in Connectivity :
         process_text_command(command, wait, answer)
    \/ listen_for_command
    \/ process_voice_command
    \/ \E cb \in BOOLEAN : start_background_listening("none", cb)
    \/ start_background_listening("start_continuous_listening", FALSE)
    \/ stop_background_listening("none")
    \/ stop_background_listening("stop_continuous_listening")
    \/ stop
    \/ JoinReturns
    \/ \E w \in WakeWordInputs : set_wake_word(w)
    \/ \E p \in BOOLEAN : set_offline_preference(p)
    \/ \E config \in ConfigInputs, raises \in BOOLEAN :
         update_configuration(config, raises)
    \/ \E p \in BOOLEAN, w \in WakeWordInputs,
          outcome \in {"ok", "start_raises", "config_raises"} :
         initialize_assistant(p, w, outcome)
    \/ \E raises \in BOOLEAN : get_assistant_status(raises)
    \/ Continue
    \/ \E t \in Threads : Recognize(t)
    \/ \E t \in Threads : Body(t)
    \/ \E t \in Background : Poll(t)
    \/ \E t \in Background : Deliver(t)
    \/ \E t \in Background : CallbackEnds(t)

Spec == Init /\ [][Next]_vars

\* Every started thread keeps running: a sleep, a recognition, a request
\* and a callback return, and so does a join with a timeout.  The caller
\* need not make another call.
Fairness ==
    /\ WF_vars(JoinReturns)
    /\ \A t \in Threads : WF_vars(Recognize(t)) /\ WF_vars(Body(t))
    /\ \A t \in Background :
          WF_vars(Poll(t)) /\ WF_vars(Deliver(t)) /\ WF_vars(CallbackEnds(t))

SpecFair == Init /\ [][Next]_vars /\ Fairness

\* ------------------------------------------------ the string specification
\* process_voice_command's wake-word stripping as a function of the
\* recognized text and the wake word alone.

\* All strings over Alphabet of length at most n.
Texts(n) == UNION {[1..k -> Alphabet] : k \in 0..n}

InitStrings ==
    /\ argv = {}
    /\ InitProgram
    /\ VoskAbsent
    /\ s_text \in Texts(MaxLen)
    /\ s_wake \in Texts(MaxWakeLen)
    /\ s_out = NoText

\* process_voice_command, lines 222-230, on recognized text s_text with
\* wake word s_wake.
ExtractStep ==
    /\ s_out = NoText
    /\ s_out' = ExtractCommand(s_text, s_wake)
    /\ UNCHANGED <<argv, asstVars, frameVars, calls, s_text, s_wake, exchange,
                   voskVars>>

SpecStrings == InitStrings /\ [][ExtractStep]_vars

\* ------------------------------------------------ the answer specification
\* process_text_command of the global assistant, called from the caller's
\* thread alone, against every answer of the planner and the AI router.
InitAnswer ==
    /\ argv = {}
    /\ InitProgram
    /\ VoskAbsent
    /\ s_text = <<>>
    /\ s_wake = <<>>
    /\ s_out = NoText

AskText ==
    \E command \in CommandInputs, wait \in BOOLEAN, answer \in Connectivity :
        process_text_command(command, wait, answer)

AnswerText == BodyWith(Caller, PlannerAnswers, ModelAnswers)

SpecAnswer == InitAnswer /\ [][AskText \/ AnswerText \/ Continue]_vars

\* ----------------------------------------- the configuration specification
\* The calls that construct or configure the global assistant, together
\* with main.py's initialize_components, made one after the other.
NextConfig ==
    \/ \E p \in BOOLEAN, w \in WakeWordInputs,
          outcome \in {"ok", "start_raises", "config_raises"} :
         initialize_assistant(p, w, outcome)
    \/ \E p \in BOOLEAN, other \in {"none", "before_vosk", "tts_engine"},
          loads \in BOOLEAN :
         initialize_components(p, other, loads)
    \/ \E config \in ConfigInputs, raises \in BOOLEAN :
         update_configuration(config, raises)
    \/ \E p \in BOOLEAN : set_offline_preference(p)
    \/ \E w \in WakeWordInputs : set_wake_word(w)
    \/ Continue

\* The process was started with any of the flags, in any environment.
InitConfig ==
    /\ argv \in SUBSET {"--demo", "--offline"}
    /\ InitProgram
    /\ InitVosk
    /\ s_text = <<>>
    /\ s_wake = <<>>
    /\ s_out = NoText

SpecConfig == InitConfig /\ [][NextConfig]_vars

\* ---------------------------------------------- the recognizer specification
\* VoskRecognizer.process_audio_file(audio_file_path) on the module's
\* instance.  The caller keeps the file it named; next to the value are
\* what the recognizer was fed during the call and what it handed back.
process_audio_file(file, script) ==
    LET out == AudioFileResult(vosk_recognizer, file, script)
    IN  /\ Called
        /\ pc' = [pc EXCEPT ![Caller] = "returned"]
        /\ ret' = [fn |-> "process_audio_file", caught |-> FALSE,
                   value |-> out.value, passed |-> file, fed |-> out.fed,
                   heard |-> out.heard, final |-> out.final]
        /\ UNCHANGED <<argv, asstVars, otherVars, frameButRet>>

\* The calls on the recognizer, together with main.py's
\* initialize_components, made one after the other in any environment.
NextVosk ==
    \/ \E loads \in BOOLEAN : initialize(loads)
    \/ \E p \in BOOLEAN, other \in {"none", "before_vosk", "tts_engine"},
          loads \in BOOLEAN :
         initialize_components(p, other, loads)
    \/ \E file \in AudioFiles, script \in VoskScripts :
         process_audio_file(file, script)
    \/ Continue

SpecVosk == InitConfig /\ [][NextVosk]_vars

\* -------------------------------------------------------------- properties
\* The value thread t's assistant method hands back in the step taken.
Outcome(t) == IF t = Caller THEN ret'.value ELSE result'[t]

\* Thread t's process_text_command call returns in the step taken.
TextCommandReturns(t) == pc[t] = "body" /\ pc'[t] # "body"

\* Thread t's process_text_command call passes its connectivity check in the
\* step taken.
TextCommandBegins(t) == pc[t] # "body" /\ pc'[t] = "body"

\* C1: every process_text_command call returns a dict with the keys success
\* and response, and when it returns last_command of its assistant equals
\* the command_text it was passed.  (Stated for the caller's calls, whose
\* return value is observed.)
C1_ReturnsDictAndEchoesCommand ==
    [][TextCommandReturns(Caller) =>
          /\ {"success", "response"} \subseteq DOMAIN ret'.value
          /\ last_command'[self[Caller]] = command_text[Caller]]_vars

\* The calls that ask the background thread to stop.
StopCalls == {"stop", "stop_background_listening", "stop_continuous_listening"}

\* C2: once a stop call (stop_background_listening, stop or
\* stop_continuous_listening) has returned, the background listening thread
\* of the assistant is no longer alive.
C2_StoppedThreadIsDead ==
    (pc[Caller] = "returned" /\ ret.fn \in StopCalls)
        => ~HasLiveThread(assistant)

\* The places <<i, j>> at which the wake word occurs in the text under
\* case-insensitive comparison: text[i:j] and wake are equal once lowered.
Occurrences(text, wake) ==
    {o \in (0..Len(text)) \X (0..Len(text)) :
        o[1] <= o[2] /\ lower(SubSeq(text, o[1] + 1, o[2])) = lower(wake)}

\* The substring of the text that follows the first occurrence of the wake
\* word.
FollowingFirst(text, wake) ==
    LET first == CHOOSE o \in Occurrences(text, wake) :
                    \A q \in Occurrences(text, wake) : o[1] <= q[1]
    IN  SliceFrom(text, first[2])

\* C3: when the recognized text contains the wake word under
\* case-insensitive comparison, the command text is the substring of the
\* recognized text after the first occurrence of the wake word, stripped of
\* leading and trailing whitespace; otherwise it is the recognized text.
C3_WakeWordStripped ==
    s_out # NoText =>
        s_out = IF Occurrences(s_text, s_wake) # {}
                THEN strip(FollowingFirst(s_text, s_wake))
                ELSE s_text

\* C4: set_wake_word with an empty string or a string shorter than 2
\* characters returns False and leaves wake_word as it was; with a string of
\* 2 characters or more it returns True and wake_word is the new string.
C4_SetWakeWord ==
    [][\A w \in WakeWordInputs :
          set_wake_word(w) =>
              IF Len(w) < 2
              THEN ret'.value = [returned |-> FALSE] /\ wake_word' = wake_word
              ELSE /\ ret'.value = [returned |-> TRUE]
                   /\ wake_word'[assistant] = w]_vars

\* C4's case: a wake word has been accepted and a later one rejected.
C4_Rejected ==
    /\ pc[Caller] = "returned"
    /\ ret.fn = "set_wake_word"
    /\ ret.value = [returned |-> FALSE]
    /\ wake_word[assistant] = <<"l", "a">>

\* s.startswith(prefix)
StartsWith(s, prefix) == MatchAt(s, prefix, 0)

\* Thread t's process_voice_command hands a text to process_text_command in
\* the step taken.
Forwards(t) == pc[t] = "voice" /\ pc'[t] = "body"

C6_CallbackOnSuccessOnly ==
    [][\A t \in Background :
          /\ pc'[t] = "in_callback"
                => callback'[t] /\ Get(result'[t], "success", FALSE)
          /\ (pc[t] = "result" /\ pc'[t] # "result")
                => (pc'[t] = "in_callback"
                      <=> callback[t] /\ Get(result[t], "success", FALSE))
          /\ (pc[t] # "in_callback" /\ pc'[t] = "in_callback")
                => pc[t] = "result" /\ result'[t] = result[t]
          /\ (pc[t] = "in_callback" /\ pc'[t] # "in_callback")
                => pc'[t] = "loop"
          /\ (pc[t] # "dead" /\ pc'[t] = "dead")
                => pc[t] = "loop" /\ should_stop_background[self[t]]]_vars

\* C6's case: a background thread is in its callback.
C6_InCallback ==
    \E t \in Background : pc[t] = "in_callback" /\ result[t].success

\* C7 as stated: whenever prefer_offline is true, a process_text_command
\* call that has yet to ask the AI router asks it with "offline".
C7_OfflineWhenever ==
    \A t \in Threads :
        (pc[t] = "body" /\ prefer_offline[self[t]])
            => ModelPreference(online_available[t]) = "offline"

\* C7 amended: with prefer_offline as the call reads it at its connectivity
\* check, a call asks the router with "offline" when prefer_offline is true,
\* and with "auto" exactly when is_online() answered true and prefer_offline
\* is false; what it asks with does not change during the call, and a
\* successful result reports online true exactly when it asked with "auto".
C7_OfflineAsRead ==
    [][\A t \in Threads :
          /\ TextCommandBegins(t) =>
                /\ prefer_offline[self'[t]]
                      => ModelPreference(online_available'[t]) = "offline"
                /\ ModelPreference(online_available'[t]) = "auto"
                      <=> (is_online'[t] /\ ~prefer_offline[self'[t]])
          /\ (pc[t] = "body" /\ pc'[t] = "body")
                => online_available'[t] = online_available[t]
          /\ (TextCommandReturns(t) /\ Get(Outcome(t), "success", FALSE))
                => Outcome(t).online
                     = (ModelPreference(online_available[t]) = "auto")]_vars

\* C7's case: a call that found the network available asks for "offline"
\* because prefer_offline is set.
C7_PreferredOffline ==
    \E t \in Threads :
        /\ pc[t] = "body"
        /\ prefer_offline[self[t]]
        /\ is_online[t]
        /\ ModelPreference(online_available[t]) = "offline"

\* C8: a process_text_command call in which the planner or the AI router
\* raised returns success false, the apology and an error string, and
\* last_response of its assistant is what it was when the call began.
\* (Stated for the caller's calls, whose return value is observed.)
C8_ErrorKeepsLastResponse ==
    [][(TextCommandReturns(Caller) /\ "error" \in DOMAIN ret'.value) =>
          /\ ret'.value.success = FALSE
          /\ ret'.value.response = "apology"
          /\ last_response'[self[Caller]] = last_response_before[Caller]]_vars

\* C9 as stated: a module-level function that caught an exception returns
\* success false and an error string, whatever the flags.
C9_CaughtNeverSucceeds ==
    (pc[Caller] = "returned" /\ ret.caught)
        => ret.value.success = FALSE /\ "error" \in DOMAIN ret.value

\* C9 amended: a module-level function that caught an exception returns
\* success false and an error string, except process_command under --demo,
\* which returns the simulated result with success true.
C9_CaughtReturnsFailure ==
    (pc[Caller] = "returned" /\ ret.caught) =>
        IF ret.fn = "process_command" /\ "--demo" \in argv
        THEN ret.value.success = TRUE /\ ret.value.simulated = TRUE
        ELSE ret.value.success = FALSE /\ "error" \in DOMAIN ret.value

\* C9's case: process_command caught an exception under --demo.
C9_CaughtInDemo ==
    /\ pc[Caller] = "returned"
    /\ ret.caught
    /\ ret.fn = "process_command"
    /\ "--demo" \in argv

\* The background threads of assistant a that are alive.
Polling(a) == {t \in Background : is_alive(t) /\ self[t] = a}

\* C10: an assistant has at most one background thread in the polling loop.
\* (A state in which a stop is pending is not counted: a thread that has
\* yet to see the flag is on its way out.)
C10_AtMostOnePollingThread ==
    \A a \in Assistants :
        ~should_stop_background[a] => Cardinality(Polling(a)) <= 1

\* C11: a background thread that is alive when a stop request sets
\* should_stop_background (the caller is then in the join) eventually ends,
\* whatever the caller does afterwards.
C11_StoppedThreadEnds ==
    \A t \in Background :
        (pc[Caller] = "join" /\ background_thread[self[Caller]] = t /\ is_alive(t))
            ~> (pc[t] = "dead")

\* Another thread than t is inside process_text_command on t's assistant.
OtherInProgress(t) ==
    \E u \in Threads \ {t} : pc[u] = "body" /\ self[u] = self[t]

\* C12: is_processing is true while a process_text_command invocation is
\* between its entry and its return, and a background thread starts no
\* pipeline invocation (it neither passes the guard of line 277 nor enters
\* process_text_command) while another invocation is in progress.
C12_ProcessingWhileInvoked ==
    [][/\ \A t \in Threads : pc[t] = "body" => is_processing[self[t]]
       /\ \A t \in Background :
             ((pc[t] = "loop" /\ pc'[t] = "voice") \/ TextCommandBegins(t))
                 => ~OtherInProgress(t)]_vars

\* A process_text_command invocation on assistant a is in progress.
InProgress(a) == \E t \in Threads : pc[t] = "body" /\ self[t] = a

\* C13: is_processing is false whenever no process_text_command invocation
\* is in progress on the assistant.
C13_IdleWhenNotInvoked ==
    \A a \in Assistants : ~InProgress(a) => ~is_processing[a]

\* C14: every background thread that is alive belongs to the current global
\* assistant (so none started on a replaced assistant is still running).
C14_ThreadsOfGlobalAssistant ==
    \A t \in Background : is_alive(t) => self[t] = assistant

\* C15: a process_voice_command whose recognize_once returned an empty
\* string returns success false with recognized_text "" and leaves
\* last_command, last_response and is_processing as they were; no
\* process_text_command is entered with an empty recognized text.
C15_EmptyRecognitionChangesNothing ==
    [][\A t \in Threads :
          /\ (pc[t] = "voice" /\ pc'[t] \in {"returned", "result"}
                /\ "recognized_text" \in DOMAIN Outcome(t))
                => /\ Outcome(t).success = FALSE
                   /\ Outcome(t).recognized_text = <<>>
                   /\ UNCHANGED <<last_command, last_response, is_processing>>
          /\ Forwards(t) => recognized_text'[t] # <<>>]_vars

\* C15's case: after a command was processed, a voice command with nothing
\* recognized has returned.
C15_NothingRecognized ==
    /\ pc[Caller] = "returned"
    /\ ret.value = NoVoiceResult
    /\ last_command[assistant] = <<"x">>
    /\ last_response[assistant] # NoDict

\* Thread t's process_voice_command returns a dict in the step taken.
VoiceCommandReturns(t) ==
    /\ pc[t] \in {"voice", "body"}
    /\ method[t] = "process_voice_command"
    /\ pc'[t] \in {"returned", "result"}
    /\ t = Caller => ~ret'.caught /\ "raised" \notin DOMAIN ret'.value

C17_ResponseSelectedSpokenStored ==
    [][(TextCommandReturns(Caller) /\ method[Caller] = "process_text_command"
           /\ Get(ret'.value, "success", FALSE)) =>
          LET p == exchange'.planning_result
              m == exchange'.model_response
              planned == "success" \in DOMAIN p /\ p.success
              text_given == "text" \in DOMAIN m /\ m.text # ""
          IN  /\ planned /\ "response" \in DOMAIN p
                    => ret'.value.response = p.response
              /\ ~planned /\ text_given => ret'.value.response = m.text
              /\ ~planned /\ ~text_given /\ "response" \in DOMAIN m
                    => ret'.value.response = m.response
              /\ exchange'.spoken = IF wait_for_response
                                    THEN <<ret'.value.response>>
                                    ELSE <<>>
              /\ last_response'[self[Caller]] = ret'.value]_vars

\* C17's case: a call that was told not to wait has returned the model's
\* response, the planner having failed and the model's text being empty,
\* and nothing was spoken.
C17_ModelResponseUnspoken ==
    /\ pc[Caller] = "returned"
    /\ ret.fn = "process_text_command"
    /\ Get(ret.value, "success", FALSE)
    /\ ret.value.response = "model_response"
    /\ Get(exchange.planning_result, "success", FALSE) = FALSE
    /\ Get(exchange.model_response, "text", "") = ""
    /\ exchange.spoken = <<>>
    /\ last_response[assistant] = ret.value

\* update_configuration returns, in the step taken, from a request whose
\* wake_word is shorter than 2 characters.
ShortWakeWordRequested ==
    /\ pc[Caller] = "idle"
    /\ pc'[Caller] = "returned"
    /\ ret'.fn = "update_configuration"
    /\ "wake_word" \in DOMAIN ret'.passed
    /\ Len(ret'.passed.wake_word) < 2

\* C18: update_configuration with a wake_word shorter than 2 characters
\* returns success true with a config that carries the wake word of before
\* the call, and a prefer_offline of the same request is the assistant's
\* and the router's after the call and is in the returned config.  (The
\* return value is that of a call in which get_configuration did not
\* raise; the settings are applied in either case.)
C18_RejectedWakeWordDoesNotFail ==
    [][ShortWakeWordRequested =>
          LET config == ret'.passed
          IN  /\ wake_word' = wake_word
              /\ "prefer_offline" \in DOMAIN config
                    => /\ prefer_offline'[assistant] = config.prefer_offline
                       /\ offline_mode' = config.prefer_offline
              /\ ~ret'.caught
                    => /\ ret'.value.success = TRUE
                       /\ ret'.value.config.wake_word = wake_word[assistant]
                       /\ "prefer_offline" \in DOMAIN config
                             => ret'.value.config.prefer_offline
                                  = config.prefer_offline]_vars

\* C18's case: a request with a one-character wake word and prefer_offline
\* true, made to an assistant that preferred online, has returned success
\* with the default wake word and prefer_offline true.
C18_ShortWakeWordPreferenceApplied ==
    /\ pc[Caller] = "returned"
    /\ ret.fn = "update_configuration"
    /\ ret.passed = [wake_word |-> <<"a">>, prefer_offline |-> TRUE]
    /\ "--offline" \notin argv
    /\ calls = 1
    /\ ret.value = [success |-> TRUE,
                    config |-> [wake_word |-> DefaultWakeWord, prefer_offline |-> TRUE,
                                is_active |-> is_active[assistant],
                                is_processing |-> is_processing[assistant]]]
    /\ prefer_offline[assistant] /\ offline_mode

C20_WakeWordAtLeastTwo == Len(wake_word[assistant]) >= 2

\* C21: when the process was started with --demo or --offline,
\* process_command returns for every command text a canned result with
\* success true, model "offline-demo" and online false, it does not enter
\* the assistant's process_text_command, and last_command, last_response
\* and is_processing are as before the call.
C21_DemoAnswersCanned ==
    [][\A command \in CommandInputs, answer \in Connectivity :
          (process_command(command, answer)
              /\ ("--demo" \in argv \/ "--offline" \in argv)) =>
             /\ pc'[Caller] = "returned"
             /\ ret'.fn = "process_command"
             /\ command # NoText =>
                   /\ ~ret'.caught
                   /\ {"success", "response", "model", "online"}
                         \subseteq DOMAIN ret'.value
                   /\ ret'.value.success = TRUE
                   /\ ret'.value.model = "offline-demo"
                   /\ ret'.value.online = FALSE
             /\ UNCHANGED <<last_command, last_response, is_processing>>]_vars

\* C21's case: started with --offline alone, process_command has answered
\* a greeting with the canned result and the assistant has seen no command.
C21_CannedUnderOffline ==
    /\ argv = {"--offline"}
    /\ pc[Caller] = "returned"
    /\ ret.fn = "process_command"
    /\ ~ret.caught
    /\ ret.value = [success |-> TRUE, response |-> "demo_hola",
                    model |-> "offline-demo", online |-> FALSE]
    /\ last_command[assistant] = NoText
    /\ last_response[assistant] = NoDict
    /\ ~is_processing[assistant]

\* The consecutive chunks of ChunkFrames frames, each <<first frame, frames>>,
\* that exhaust a file of n frames.
ChunksOf(n) ==
    [k \in 1..((n + ChunkFrames - 1) \div ChunkFrames) |->
        <<(k - 1) * ChunkFrames,
          IF n - (k - 1) * ChunkFrames < ChunkFrames
          THEN n - (k - 1) * ChunkFrames ELSE ChunkFrames>>]

\* The text of a recognizer result, empty when it has none.
TextOf(r) == IF "text" \in DOMAIN r THEN r.text ELSE <<>>

\* The non-empty segment texts in arrival order.
RECURSIVE SegmentTexts(_)
SegmentTexts(heard) ==
    IF heard = <<>> THEN <<>>
    ELSE IF TextOf(Head(heard)) = <<>> THEN SegmentTexts(Tail(heard))
    ELSE <<TextOf(Head(heard))>> \o SegmentTexts(Tail(heard))

\* The texts joined by single spaces.
JoinedBySpaces(texts) ==
    LET RECURSIVE upto(_)
        upto(k) == IF k = 0 THEN <<>>
                   ELSE IF k = 1 THEN texts[1]
                   ELSE upto(k - 1) \o <<" ">> \o texts[k]
    IN  upto(Len(texts))

\* process_audio_file returns in the step taken.
AudioFileReturns ==
    pc[Caller] = "idle" /\ pc'[Caller] = "returned"
        /\ ret'.fn = "process_audio_file"

NeverInitialized == ~is_initialized(vosk_recognizer)

====
